---------------------------- MODULE Spec2Model ----------------------------
(***************************************************************************)
(* A model of the 3D volume viewer of src/main.py: the volume load, the    *)
(* frame loop of main, the slice compositor render_slices and the four     *)
(* GLFW input callbacks that drive the orbit/zoom camera.                  *)
(*                                                                         *)
(* Numbers.  The program computes in floating point; the model computes    *)
(* the same expressions exactly, in fixed point:                           *)
(*   - zoom is held in hundredths (3.75 is 375);                           *)
(*   - an angle is held in milliradians (0.005 rad per pixel is 5);        *)
(*   - a slice depth i/(N-1) is held as the fraction <<i, N-1>>.           *)
(*                                                                         *)
(* Orientation.  Every quaternion the program builds is a product of       *)
(* angleAxis rotations about the y axis (yaw) and the x axis (pitch).      *)
(* A quaternion is held as that product, a word of <<axis, angle>>         *)
(* factors, kept reduced: neighbouring factors about the same axis are     *)
(* merged by adding their angles, and a factor of angle 0 is dropped.      *)
(* Angles are integer multiples of 0.005 rad, and e^(0.005 i) is           *)
(* transcendental, so the yaw and pitch rotations by 0.005 rad satisfy no  *)
(* relation: two reduced words are the same rotation exactly when they     *)
(* are the same word.  Equality of words is equality of orientations in    *)
(* exact arithmetic.                                                       *)
(***************************************************************************)
EXTENDS Integers, Sequences, FiniteSets, TLC

(***************************************************************************)
(* Program constants.                                                      *)
(***************************************************************************)
slices_width == 256
slices_height == 256
num_slices == 128
ElementSize == 1
ZoomInit == 375
ZoomMin == 50
ZoomMax == 500
zoom_sensitivity == 10
rotation_speed == 5

(***************************************************************************)
(* Bounds of the model.                                                    *)
(***************************************************************************)
Step == 50
MaxCol == 2
MaxRow == 1
MaxWord == 2
MaxAngle == 500
MaxSlices == 6
SizeSlack == 1
BigScroll == 50
MaxUnitScrolls == 3

(***************************************************************************)
(* GLFW's names.                                                           *)
(***************************************************************************)
MOUSE_BUTTON_LEFT == "MOUSE_BUTTON_LEFT"
MOUSE_BUTTON_RIGHT == "MOUSE_BUTTON_RIGHT"
PRESS == "PRESS"
RELEASE == "RELEASE"
REPEAT == "REPEAT"
KEY_ESCAPE == "KEY_ESCAPE"
KEY_SPACE == "KEY_SPACE"

Buttons == {MOUSE_BUTTON_LEFT, MOUSE_BUTTON_RIGHT}
ButtonActions == {PRESS, RELEASE}
Keys == {KEY_ESCAPE, KEY_SPACE}
KeyActions == {PRESS, RELEASE, REPEAT}

(***************************************************************************)
(* Inputs.  Cursor positions lie on a grid of pitch Step; the drag         *)
(* specification uses the whole grid, the others one row of two columns.   *)
(* Scroll offsets are one notch either way and a spin large enough to      *)
(* cross the whole zoom range.                                             *)
(***************************************************************************)
GridPositions == {<<c * Step, r * Step>> : c \in 0..MaxCol, r \in 0..MaxRow}
RowPositions == {<<0, 0>>, <<Step, 0>>}
NotchOffsets == {1, -1}
SpinOffsets == {BigScroll, -BigScroll}

(***************************************************************************)
(* Quaternions: glm.quat, glm.angleAxis, operator *, glm.normalize.        *)
(* A quaternion is [w |-> reduced word, len |-> its length]; the word      *)
(* reads left to right as the product is written.                          *)
(***************************************************************************)
Abs(n) == IF n < 0 THEN -n ELSE n

Y_AXIS == "y"
X_AXIS == "x"

RECURSIVE Join(_, _)
Join(u, v) ==
  IF u = << >> THEN v
  ELSE IF v = << >> THEN u
  ELSE LET l == u[Len(u)]
           h == v[1]
           s == l[2] + h[2]
           front == SubSeq(u, 1, Len(u) - 1)
       IN  IF l[1] # h[1] THEN u \o v
           ELSE IF s = 0 THEN Join(front, Tail(v))
           ELSE front \o << <<l[1], s>> >> \o Tail(v)

QuatIdentity == [w |-> << >>, len |-> 1]

AngleAxis(angle, axis) ==
  [w |-> IF angle = 0 THEN << >> ELSE << <<axis, angle>> >>, len |-> 1]

QMul(a, b) == [w |-> Join(a.w, b.w), len |-> a.len * b.len]

Normalize(q) == [w |-> q.w, len |-> q.len \div q.len]

ClampNoUpper(x, lo, hi) == IF x < lo THEN lo ELSE x

Clamp(x, lo, hi) == IF x < lo THEN lo ELSE IF x > hi THEN hi ELSE x

(***************************************************************************)
(* State.                                                                  *)
(***************************************************************************)
VARIABLES
  pc,                 \* where main (or a call of render_slices) stands
  data_len,           \* number of elements of the array read from the file
  texture,            \* what load_3d_texture uploaded
  console,            \* the messages printed to standard output
  created,            \* GPU objects: how many times each was created
  released,           \* GPU objects: how many times each was deleted
  window_destroyed,
  should_close,       \* the window's close flag
  gl,                 \* the GL state render_slices sets
  gl_at_call,         \* gl when render_slices was last called
  slices_arg,         \* num_slices argument of the last call of render_slices
  draws,              \* the draw calls issued since the last swap_buffers
  mouse_pressed, first_mouse, last_mouse_pos, rotation, zoom,
  \* history of the current drag and of the input events
  drag_ref_pos,       \* cursor position recorded by the reference move
  drag_ref_rot,       \* rotation when the reference move was processed
  drag_horizontal,    \* every delta move of the drag had a zero vertical delta
  drag_vertical,      \* every delta move of the drag had a zero horizontal delta
  press_pending,      \* a left press was delivered and no move since, button held
  repress_pending,    \* the same, and the press followed a left release
  was_released,       \* the last left-button event was a release
  close_cause,        \* the event that raised the close flag, or "none"
  unit_scrolls        \* scroll events so far if each had yoffset 1 (counted
                      \* up to MaxUnitScrolls), else -1

camera == <<mouse_pressed, first_mouse, last_mouse_pos, rotation, zoom>>
history == <<drag_ref_pos, drag_ref_rot, drag_horizontal, drag_vertical,
             press_pending, repress_pending, was_released, close_cause,
             unit_scrolls>>
render == <<gl, gl_at_call, slices_arg, draws>>
process == <<pc, data_len, texture, console, created, released,
             window_destroyed, should_close>>
vars == <<process, render, camera, history>>


(***************************************************************************)
(* render_slices.  The loop of lines 113-116 issues one draw call per      *)
(* slice index; a draw call is recorded with the slice uniform and the GL  *)
(* state it was issued under.                                              *)
(***************************************************************************)
SRC_ALPHA == "SRC_ALPHA"
ONE_MINUS_SRC_ALPHA == "ONE_MINUS_SRC_ALPHA"
ONE == "ONE"
ZERO == "ZERO"

GLDefault ==
  [depth_test |-> FALSE, depth_mask |-> TRUE, blend |-> FALSE,
   blend_src |-> ONE, blend_dst |-> ZERO]

GLStates ==
  [depth_test : BOOLEAN, depth_mask : BOOLEAN, blend : BOOLEAN,
   blend_src : {ONE, SRC_ALPHA}, blend_dst : {ZERO, ONE_MINUS_SRC_ALPHA}]

\* lines 105-108
SliceSetup(g) ==
  [g EXCEPT !.depth_test = TRUE, !.depth_mask = FALSE, !.blend = TRUE,
            !.blend_src = SRC_ALPHA, !.blend_dst = ONE_MINUS_SRC_ALPHA]

\* lines 118-120
SliceTeardown(g) ==
  [g EXCEPT !.blend = FALSE, !.depth_mask = TRUE, !.depth_test = FALSE]

\* line 114: slice_val = i / (num_slices - 1)
SliceVal(i, n) == <<i, n - 1>>

\* lines 115-116: glUniform1f(slice_loc, slice_val); glDrawArrays(...)
DrawCall(i, n, g) == [index |-> i, slice |-> SliceVal(i, n), gl |-> g]

\* line 113: range(start, stop, -1) yields start, start - 1, ... while the
\* item is above stop; RangeItem is its k-th item, counted from 1
RangeLen(start, stop) == IF start > stop THEN start - stop ELSE 0
RangeItemAscending(start, k) == k - 1

RangeItem(start, k) == start - (k - 1)

\* lines 113-116: for i in range(num_slices - 1, -1, -1)
SliceLoop(n, g) ==
  [k \in 1..RangeLen(n - 1, -1) |-> DrawCall(RangeItem(n - 1, k), n, g)]

render_slices(n) ==
  LET g == SliceSetup(gl)
  IN  /\ gl_at_call' = gl
      /\ slices_arg' = n
      /\ draws' = SliceLoop(n, g)
      /\ gl' = SliceTeardown(g)

(***************************************************************************)
(* The input callbacks.                                                    *)
(***************************************************************************)
NO_CAUSE == <<"none", "", "">>

\* the release that forgets to re-arm first_mouse
mouse_button_callback_no_rearm(button, action) ==
  /\ IF button = MOUSE_BUTTON_LEFT /\ action = PRESS
     THEN /\ mouse_pressed' = TRUE
          /\ first_mouse' = first_mouse
          /\ press_pending' = TRUE
          /\ repress_pending' = (was_released \/ repress_pending)
          /\ was_released' = FALSE
     ELSE IF button = MOUSE_BUTTON_LEFT /\ action = RELEASE
     THEN /\ mouse_pressed' = FALSE
          /\ first_mouse' = first_mouse
          /\ press_pending' = FALSE
          /\ repress_pending' = FALSE
          /\ was_released' = TRUE
     ELSE UNCHANGED <<mouse_pressed, first_mouse, press_pending,
                      repress_pending, was_released>>
  /\ UNCHANGED <<last_mouse_pos, rotation, zoom, should_close>>
  /\ UNCHANGED <<drag_ref_pos, drag_ref_rot, drag_horizontal, drag_vertical,
                 close_cause, unit_scrolls>>

mouse_button_callback(button, action) ==
  /\ IF button = MOUSE_BUTTON_LEFT /\ action = PRESS
     THEN /\ mouse_pressed' = TRUE
          /\ first_mouse' = first_mouse
          /\ press_pending' = TRUE
          /\ repress_pending' = (was_released \/ repress_pending)
          /\ was_released' = FALSE
     ELSE IF button = MOUSE_BUTTON_LEFT /\ action = RELEASE
     THEN /\ mouse_pressed' = FALSE
          /\ first_mouse' = TRUE
          /\ press_pending' = FALSE
          /\ repress_pending' = FALSE
          /\ was_released' = TRUE
     ELSE UNCHANGED <<mouse_pressed, first_mouse, press_pending,
                      repress_pending, was_released>>
  /\ UNCHANGED <<last_mouse_pos, rotation, zoom, should_close>>
  /\ UNCHANGED <<drag_ref_pos, drag_ref_rot, drag_horizontal, drag_vertical,
                 close_cause, unit_scrolls>>

\* the key test that forgets the action
key_callback_any_action(key, action) ==
  /\ IF key = KEY_ESCAPE
     THEN /\ should_close' = TRUE
          /\ close_cause' = IF should_close THEN close_cause
                            ELSE <<"key", key, action>>
     ELSE UNCHANGED <<should_close, close_cause>>
  /\ UNCHANGED camera
  /\ UNCHANGED <<drag_ref_pos, drag_ref_rot, drag_horizontal, drag_vertical,
                 press_pending, repress_pending, was_released, unit_scrolls>>

key_callback(key, action) ==
  /\ IF key = KEY_ESCAPE /\ action = PRESS
     THEN /\ should_close' = TRUE
          /\ close_cause' = IF should_close THEN close_cause
                            ELSE <<"key", key, action>>
     ELSE UNCHANGED <<should_close, close_cause>>
  /\ UNCHANGED camera
  /\ UNCHANGED <<drag_ref_pos, drag_ref_rot, drag_horizontal, drag_vertical,
                 press_pending, repress_pending, was_released, unit_scrolls>>

\* the yaw taken about the pitch axis
DragRotationYawAboutX(q, dx, dy) ==
  LET yaw_quat == AngleAxis(dx * rotation_speed, X_AXIS)
      pitch_quat == AngleAxis(dy * rotation_speed, X_AXIS)
  IN  Normalize(QMul(QMul(yaw_quat, pitch_quat), q))

\* lines 152-160: the orientation after a move of (dx, dy) pixels
DragRotation(q, dx, dy) ==
  LET yaw_quat == AngleAxis(dx * rotation_speed, Y_AXIS)
      pitch_quat == AngleAxis(dy * rotation_speed, X_AXIS)
  IN  Normalize(QMul(QMul(yaw_quat, pitch_quat), q))

\* the delta move that forgets line 153
mouse_callback_stale_last(xpos, ypos) ==
  /\ IF ~mouse_pressed
     THEN UNCHANGED <<last_mouse_pos, first_mouse, rotation, drag_ref_pos,
                      drag_ref_rot, drag_horizontal, drag_vertical,
                      press_pending, repress_pending>>
     ELSE IF first_mouse
     THEN /\ last_mouse_pos' = <<xpos, ypos>>
          /\ first_mouse' = FALSE
          /\ rotation' = rotation
          /\ drag_ref_pos' = <<xpos, ypos>>
          /\ drag_ref_rot' = rotation
          /\ drag_horizontal' = TRUE
          /\ drag_vertical' = TRUE
          /\ press_pending' = FALSE
          /\ repress_pending' = FALSE
     ELSE LET dx == xpos - last_mouse_pos[1]
              dy == ypos - last_mouse_pos[2]
          IN  /\ last_mouse_pos' = last_mouse_pos
              /\ first_mouse' = first_mouse
              /\ rotation' = DragRotation(rotation, dx, dy)
              /\ drag_horizontal' = (drag_horizontal /\ dy = 0)
              /\ drag_vertical' = (drag_vertical /\ dx = 0)
              /\ press_pending' = FALSE
              /\ repress_pending' = FALSE
              /\ UNCHANGED <<drag_ref_pos, drag_ref_rot>>
  /\ UNCHANGED <<mouse_pressed, zoom, should_close, was_released, close_cause,
                 unit_scrolls>>

mouse_callback(xpos, ypos) ==
  /\ IF ~mouse_pressed
     THEN UNCHANGED <<last_mouse_pos, first_mouse, rotation, drag_ref_pos,
                      drag_ref_rot, drag_horizontal, drag_vertical,
                      press_pending, repress_pending>>
     ELSE IF first_mouse
     THEN /\ last_mouse_pos' = <<xpos, ypos>>
          /\ first_mouse' = FALSE
          /\ rotation' = rotation
          /\ drag_ref_pos' = <<xpos, ypos>>
          /\ drag_ref_rot' = rotation
          /\ drag_horizontal' = TRUE
          /\ drag_vertical' = TRUE
          /\ press_pending' = FALSE
          /\ repress_pending' = FALSE
     ELSE LET dx == xpos - last_mouse_pos[1]
              dy == ypos - last_mouse_pos[2]
          IN  /\ last_mouse_pos' = <<xpos, ypos>>
              /\ first_mouse' = first_mouse
              /\ rotation' = DragRotation(rotation, dx, dy)
              /\ drag_horizontal' = (drag_horizontal /\ dy = 0)
              /\ drag_vertical' = (drag_vertical /\ dx = 0)
              /\ press_pending' = FALSE
              /\ repress_pending' = FALSE
              /\ UNCHANGED <<drag_ref_pos, drag_ref_rot>>
  /\ UNCHANGED <<mouse_pressed, zoom, should_close, was_released, close_cause,
                 unit_scrolls>>

\* the zoom stepped the other way
scroll_callback_added(yoffset) ==
  /\ zoom' = Clamp(zoom + yoffset * zoom_sensitivity, ZoomMin, ZoomMax)
  /\ unit_scrolls' = IF /\ unit_scrolls >= 0
                        /\ unit_scrolls < MaxUnitScrolls
                        /\ yoffset = 1
                     THEN unit_scrolls + 1
                     ELSE -1
  /\ UNCHANGED <<mouse_pressed, first_mouse, last_mouse_pos, rotation,
                 should_close>>
  /\ UNCHANGED <<drag_ref_pos, drag_ref_rot, drag_horizontal, drag_vertical,
                 press_pending, repress_pending, was_released, close_cause>>

scroll_callback(yoffset) ==
  /\ zoom' = Clamp(zoom - yoffset * zoom_sensitivity, ZoomMin, ZoomMax)
  /\ unit_scrolls' = IF /\ unit_scrolls >= 0
                        /\ unit_scrolls < MaxUnitScrolls
                        /\ yoffset = 1
                     THEN unit_scrolls + 1
                     ELSE -1
  /\ UNCHANGED <<mouse_pressed, first_mouse, last_mouse_pos, rotation,
                 should_close>>
  /\ UNCHANGED <<drag_ref_pos, drag_ref_rot, drag_horizontal, drag_vertical,
                 press_pending, repress_pending, was_released, close_cause>>

\* the user asks the window to close: GLFW sets the close flag itself
CLOSE_REQUEST == <<"close_request", "", "">>

close_request ==
  /\ should_close' = TRUE
  /\ close_cause' = IF should_close THEN close_cause ELSE CLOSE_REQUEST
  /\ UNCHANGED camera
  /\ UNCHANGED <<drag_ref_pos, drag_ref_rot, drag_horizontal, drag_vertical,
                 press_pending, repress_pending, was_released, unit_scrolls>>

\* the model stops a drag that would leave the orientations it enumerates
RotationBounded(q) ==
  /\ Len(q.w) <= MaxWord
  /\ \A k \in 1..Len(q.w) : Abs(q.w[k][2]) <= MaxAngle


(***************************************************************************)
(* main.                                                                   *)
(***************************************************************************)
Resources == {"texture", "program", "vao", "vbo"}

ExpectedBytes == slices_width * slices_height * num_slices * ElementSize
FileSizes == {ExpectedBytes + d : d \in (-SizeSlack)..SizeSlack}

COMPILE_FAILED == "Shader compilation failed"
LINK_FAILED == "Shader program linking failed"
ShaderOutcomes == {"ok", "compile_failed", "link_failed"}

NoTexture == [uploaded |-> FALSE, texels |-> 0, from_file |-> 0]

\* lines 172-176, and the window and callbacks of lines 178-192
Init ==
  /\ pc = "read_file"
  /\ data_len = 0
  /\ texture = NoTexture
  /\ console = {}
  /\ created = [r \in Resources |-> 0]
  /\ released = [r \in Resources |-> 0]
  /\ window_destroyed = FALSE
  /\ should_close = FALSE
  /\ gl = GLDefault
  /\ gl_at_call = GLDefault
  /\ slices_arg = 0
  /\ draws = << >>
  /\ mouse_pressed = FALSE
  /\ first_mouse = TRUE
  /\ last_mouse_pos = <<slices_width \div 2, slices_height \div 2>>
  /\ rotation = QuatIdentity
  /\ zoom = ZoomInit
  /\ drag_ref_pos = <<slices_width \div 2, slices_height \div 2>>
  /\ drag_ref_rot = QuatIdentity
  /\ drag_horizontal = TRUE
  /\ drag_vertical = TRUE
  /\ press_pending = FALSE
  /\ repress_pending = FALSE
  /\ was_released = FALSE
  /\ close_cause = NO_CAUSE
  /\ unit_scrolls = 0

\* lines 195-199: an open that fails raises, and nothing catches it
ReadFile ==
  /\ pc = "read_file"
  /\ \/ pc' = "aborted" /\ data_len' = data_len
     \/ \E f \in FileSizes :
          pc' = "load_texture" /\ data_len' = f \div ElementSize
  /\ UNCHANGED <<texture, console, created, released, window_destroyed,
                 should_close, render, camera, history>>

\* lines 55-65: glTexImage3D reads width*height*depth elements from data,
\* whatever the length of data; a read past the end of a shorter array is
\* undefined, and either yields whatever lies there or faults
load_3d_texture(width, height, depth) ==
  LET texels == width * height * depth
      outcomes == IF data_len >= texels THEN {"uploaded"}
                  ELSE {"uploaded", "fault"}
  IN  \E o \in outcomes :
        IF o = "fault"
        THEN pc' = "aborted" /\ UNCHANGED <<texture, created>>
        ELSE /\ pc' = "setup"
             /\ texture' = [uploaded |-> TRUE, texels |-> texels,
                            from_file |-> IF data_len < texels THEN data_len
                                          ELSE texels]
             /\ created' = [created EXCEPT !["texture"] = @ + 1]

\* line 202
LoadTexture ==
  /\ pc = "load_texture"
  /\ load_3d_texture(slices_width, slices_height, num_slices)
  /\ UNCHANGED <<data_len, console, released, window_destroyed, should_close,
                 render, camera, history>>

\* lines 68-90: a failure is printed and the program goes on
create_shader_program(outcome) ==
  /\ console' = console \cup
       (CASE outcome = "ok" -> {}
          [] outcome = "compile_failed" -> {COMPILE_FAILED, LINK_FAILED}
          [] outcome = "link_failed" -> {LINK_FAILED})
  /\ created' = [r \in Resources |->
                   IF r = "texture" THEN created[r] ELSE created[r] + 1]

\* lines 203-228: shader program, vertex array and buffer, glEnable(GL_DEPTH_TEST)
Setup ==
  /\ pc = "setup"
  /\ \E o \in ShaderOutcomes : create_shader_program(o)
  /\ gl' = [gl EXCEPT !.depth_test = TRUE]
  /\ pc' = "loop"
  /\ UNCHANGED <<data_len, texture, released, window_destroyed, should_close,
                 gl_at_call, slices_arg, draws, camera, history>>

\* line 234, the loop condition holding: lines 255-261
LoopExit ==
  /\ pc = "loop"
  /\ should_close
  /\ pc' = "cleanup"
  /\ UNCHANGED <<data_len, texture, console, created, released,
                 window_destroyed, should_close, render, camera, history>>

\* lines 238-248: the frame interval has elapsed
Frame ==
  /\ pc = "loop"
  /\ ~should_close
  /\ render_slices(num_slices)
  /\ pc' = "rendered"
  /\ UNCHANGED <<data_len, texture, console, created, released,
                 window_destroyed, should_close, camera, history>>

\* line 250: glfw.swap_buffers presents the frame
SwapBuffers ==
  /\ pc = "rendered"
  /\ draws' = << >>
  /\ pc' = "poll"
  /\ UNCHANGED <<data_len, texture, console, created, released,
                 window_destroyed, should_close, gl, gl_at_call, slices_arg,
                 camera, history>>

\* lines 252-253: it has not
Sleep ==
  /\ pc = "loop"
  /\ ~should_close
  /\ UNCHANGED vars

\* the events glfw.poll_events (line 251) hands to the callbacks
Events(positions, offsets) ==
  \/ \E b \in Buttons, a \in ButtonActions : mouse_button_callback(b, a)
  \/ \E k \in Keys, a \in KeyActions : key_callback(k, a)
  \/ \E p \in positions : /\ mouse_callback(p[1], p[2])
                          /\ RotationBounded(rotation')
  \/ \E y \in offsets : scroll_callback(y)
  \/ close_request

PollEvents(positions, offsets) ==
  /\ pc = "poll"
  /\ Events(positions, offsets)
  /\ UNCHANGED <<pc, data_len, texture, console, created, released,
                 window_destroyed, render>>

\* glfw.poll_events returns
PollReturn ==
  /\ pc = "poll"
  /\ pc' = "loop"
  /\ UNCHANGED <<data_len, texture, console, created, released,
                 window_destroyed, should_close, render, camera, history>>

\* lines 255-261
Cleanup ==
  /\ pc = "cleanup"
  /\ released' = [r \in Resources |-> released[r] + 1]
  /\ window_destroyed' = TRUE
  /\ pc' = "done"
  /\ UNCHANGED <<data_len, texture, console, created, should_close, render,
                 camera, history>>

Next ==
  \/ ReadFile
  \/ LoadTexture
  \/ Setup
  \/ LoopExit
  \/ Frame
  \/ SwapBuffers
  \/ Sleep
  \/ PollEvents(RowPositions, SpinOffsets)
  \/ PollReturn
  \/ Cleanup

Spec == Init /\ [][Next]_vars

(***************************************************************************)
(* The callbacks alone, from the first glfw.poll_events of a run whose     *)
(* volume file has the expected size and whose shaders compile.            *)
(***************************************************************************)
GLInLoop == [GLDefault EXCEPT !.depth_test = TRUE]

InitPolling ==
  /\ pc = "poll"
  /\ data_len = ExpectedBytes \div ElementSize
  /\ texture = [uploaded |-> TRUE,
                texels |-> slices_width * slices_height * num_slices,
                from_file |-> slices_width * slices_height * num_slices]
  /\ console = {}
  /\ created = [r \in Resources |-> 1]
  /\ released = [r \in Resources |-> 0]
  /\ window_destroyed = FALSE
  /\ should_close = FALSE
  /\ gl = SliceTeardown(SliceSetup(GLInLoop))
  /\ gl_at_call = GLInLoop
  /\ slices_arg = num_slices
  /\ draws = << >>
  /\ mouse_pressed = FALSE
  /\ first_mouse = TRUE
  /\ last_mouse_pos = <<slices_width \div 2, slices_height \div 2>>
  /\ rotation = QuatIdentity
  /\ zoom = ZoomInit
  /\ drag_ref_pos = <<slices_width \div 2, slices_height \div 2>>
  /\ drag_ref_rot = QuatIdentity
  /\ drag_horizontal = TRUE
  /\ drag_vertical = TRUE
  /\ press_pending = FALSE
  /\ repress_pending = FALSE
  /\ was_released = FALSE
  /\ close_cause = NO_CAUSE
  /\ unit_scrolls = 0

NextDrag == PollEvents(GridPositions, SpinOffsets)
SpecDrag == InitPolling /\ [][NextDrag]_vars

NextZoom == PollEvents(RowPositions, NotchOffsets \cup SpinOffsets)
SpecZoom == InitPolling /\ [][NextZoom]_vars

(***************************************************************************)
(* render_slices alone, called with any slice count of at least 2 under    *)
(* any GL state.                                                           *)
(***************************************************************************)
SliceCounts == (2..MaxSlices) \cup {num_slices}

InitRender ==
  /\ pc = "call"
  /\ gl \in GLStates
  /\ slices_arg \in SliceCounts
  /\ gl_at_call = gl
  /\ draws = << >>
  /\ data_len = ExpectedBytes \div ElementSize
  /\ texture = [uploaded |-> TRUE,
                texels |-> slices_width * slices_height * num_slices,
                from_file |-> slices_width * slices_height * num_slices]
  /\ console = {}
  /\ created = [r \in Resources |-> 1]
  /\ released = [r \in Resources |-> 0]
  /\ window_destroyed = FALSE
  /\ should_close = FALSE
  /\ mouse_pressed = FALSE
  /\ first_mouse = TRUE
  /\ last_mouse_pos = <<slices_width \div 2, slices_height \div 2>>
  /\ rotation = QuatIdentity
  /\ zoom = ZoomInit
  /\ drag_ref_pos = <<slices_width \div 2, slices_height \div 2>>
  /\ drag_ref_rot = QuatIdentity
  /\ drag_horizontal = TRUE
  /\ drag_vertical = TRUE
  /\ press_pending = FALSE
  /\ repress_pending = FALSE
  /\ was_released = FALSE
  /\ close_cause = NO_CAUSE
  /\ unit_scrolls = 0

CallRenderSlices ==
  /\ pc = "call"
  /\ render_slices(slices_arg)
  /\ pc' = "returned"
  /\ UNCHANGED <<data_len, texture, console, created, released,
                 window_destroyed, should_close, camera, history>>

NextRender == CallRenderSlices
SpecRender == InitRender /\ [][NextRender]_vars


(***************************************************************************)
(* Properties.                                                             *)
(***************************************************************************)
ZoomOffsets == NotchOffsets \cup SpinOffsets
\* the report of a volume file of the wrong size, which no line prints
SIZE_MISMATCH == "volume size mismatch"
DragDx == last_mouse_pos[1] - drag_ref_pos[1]
DragDy == last_mouse_pos[2] - drag_ref_pos[2]
\* a reference move has been processed since the last release
InDrag == ~first_mouse

\* C1: whatever scroll events arrive, among any button, cursor and key
\* events, the zoom stays within [0.5, 5.0].
C1_ZoomInRange == ZoomMin <= zoom /\ zoom <= ZoomMax

\* zoom clamped at the upper limit, and at the lower limit, during a drag
C1_Witness ==
  /\ zoom \in {ZoomMin, ZoomMax}
  /\ unit_scrolls = -1
  /\ mouse_pressed
  /\ ~first_mouse
  /\ rotation # QuatIdentity

\* C2: after a left release and then a left press, the first cursor move of
\* the new drag leaves the rotation as it is and records the cursor position
\* as the reference; a later move of the drag, to another position, applies
\* its delta from the recorded position and changes the rotation.
C2_RepressFirstMoveIsReference ==
  [][\A p \in GridPositions :
       /\ (repress_pending /\ mouse_callback(p[1], p[2]))
            => /\ rotation' = rotation
               /\ last_mouse_pos' = p
               /\ first_mouse' = FALSE
       /\ (~repress_pending /\ ~first_mouse /\ mouse_pressed
             /\ p # last_mouse_pos /\ mouse_callback(p[1], p[2]))
            => /\ rotation' # rotation
               /\ last_mouse_pos' = p]_vars

\* the state after the reference move of a second drag: the first drag
\* turned the volume, and the new reference was taken at that orientation
C2_Witness ==
  /\ mouse_pressed
  /\ ~first_mouse
  /\ ~repress_pending
  /\ drag_ref_rot # QuatIdentity
  /\ rotation = drag_ref_rot
  /\ last_mouse_pos = drag_ref_pos
  /\ drag_horizontal /\ drag_vertical

\* C3: a call of render_slices with N >= 2 slices issues exactly N draw
\* calls, for the indices N-1, N-2, ..., 0 in that order, each with the slice
\* uniform at i/(N-1): evenly spaced values from 1 down to 0.
C3_SlicesBackToFront ==
  (pc = "returned") =>
    LET N == slices_arg IN
    /\ Len(draws) = N
    /\ \A k \in 1..Len(draws) :
         /\ draws[k].index = N - k
         /\ draws[k].slice[2] = N - 1
         /\ draws[k].slice[1] = draws[k].index
    /\ \A k \in 1..(Len(draws) - 1) :
         /\ draws[k + 1].index < draws[k].index
         /\ draws[k].slice[1] - draws[k + 1].slice[1] = 1
         /\ draws[k].slice[2] = draws[k + 1].slice[2]
    /\ draws[1].slice[1] = draws[1].slice[2]
    /\ draws[N].slice[1] = 0

\* a returned call with more than two slices, and the program's own count
C3_Witness ==
  /\ pc = "returned"
  /\ slices_arg \in {3, num_slices}
  /\ Len(draws) = slices_arg
  /\ draws[2].slice[1] > 0
  /\ draws[2].slice[1] < draws[2].slice[2]

\* C4 as stated: the orientation of a drag depends only on the orientation
\* and position at its reference and on the total pixel delta, so it is what
\* one move of the total delta gives.
C4_ChunkingInvariant ==
  InDrag => rotation = DragRotation(drag_ref_rot, DragDx, DragDy)

\* C4 amended: the same, for a drag whose delta moves all lie along one
\* axis (every vertical delta zero, or every horizontal delta zero).
C4_ChunkingInvariantOneAxis ==
  (InDrag /\ (drag_horizontal \/ drag_vertical))
    => rotation = DragRotation(drag_ref_rot, DragDx, DragDy)

\* a horizontal drag that moved away from its reference and came back in a
\* second move, at an orientation other than the initial one
C4_Witness ==
  /\ InDrag
  /\ drag_horizontal
  /\ ~drag_vertical
  /\ last_mouse_pos = drag_ref_pos
  /\ rotation = drag_ref_rot
  /\ rotation # QuatIdentity

\* C5: a scroll of offset y sets zoom to zoom - 0.1*y clamped to [0.5, 5.0],
\* drag or no drag, and leaves the rotation and the drag state alone; three
\* scrolls of offset 1 from 3.75 give 3.45.
C5_ScrollSetsZoomOnly ==
  /\ [][\A y \in ZoomOffsets :
          scroll_callback(y) =>
            /\ zoom' = (IF zoom - 10 * y < 50 THEN 50
                        ELSE IF zoom - 10 * y > 500 THEN 500
                        ELSE zoom - 10 * y)
            /\ UNCHANGED <<rotation, mouse_pressed, first_mouse,
                           last_mouse_pos>>]_vars
  /\ [](unit_scrolls = 3 => zoom = 345)

\* three scrolls of offset 1, the last two of them during a drag
C5_Witness ==
  /\ unit_scrolls = 3
  /\ zoom = 345
  /\ mouse_pressed
  /\ ~first_mouse
  /\ rotation # QuatIdentity

\* C6: in a drag whose delta moves all have a zero vertical delta, the
\* orientation is the orientation at the reference with one rotation about
\* the y axis composed onto it, of 0.005 rad per pixel of the total
\* horizontal delta, and no pitch; 100 pixels give 0.5 rad.
C6_HorizontalDragIsYaw ==
  (InDrag /\ drag_horizontal) =>
    /\ rotation.w = Join(IF DragDx = 0 THEN << >>
                         ELSE << <<Y_AXIS, 5 * DragDx>> >>, drag_ref_rot.w)
    /\ rotation.len = 1
    /\ (DragDx = 100 /\ drag_ref_rot = QuatIdentity)
         => rotation.w = << <<Y_AXIS, 500>> >>

\* a drag of +100 pixels from the initial orientation
C6_Witness ==
  /\ InDrag
  /\ drag_horizontal
  /\ ~drag_vertical
  /\ DragDx = 100
  /\ drag_ref_rot = QuatIdentity
  /\ rotation.w = << <<Y_AXIS, 500>> >>

\* C7: a volume file whose byte count is not width*height*depth*elementSize
\* is detected and reported before any upload, and is never uploaded.
C7_SizeMismatchReported ==
  (pc \notin {"read_file", "load_texture", "aborted"}
     /\ data_len * ElementSize # ExpectedBytes)
    => (~texture.uploaded /\ SIZE_MISMATCH \in console)

\* C8: once the close flag is raised the loop renders no further frame and
\* leaves at its next check of the condition; the exit deletes the vertex
\* array, the buffer, the program and the texture once each and destroys the
\* window, and nothing is deleted before; only an Escape press or a close
\* request raises the flag.
C8_CloseEndsLoop ==
  /\ [][should_close => (should_close' /\ pc' # "rendered")]_vars
  /\ [][(should_close /\ pc = "loop") => pc' = "cleanup"]_vars
  /\ [](pc = "done" =>
          /\ \A r \in Resources : created[r] = 1 /\ released[r] = 1
          /\ window_destroyed)
  /\ [](pc # "done" =>
          /\ \A r \in Resources : released[r] = 0
          /\ ~window_destroyed)
  /\ [](should_close <=> close_cause # NO_CAUSE)
  /\ [](close_cause \in {NO_CAUSE, CLOSE_REQUEST, <<"key", KEY_ESCAPE, PRESS>>})

\* the program ended after an Escape press
C8_Witness ==
  /\ pc = "done"
  /\ close_cause = <<"key", KEY_ESCAPE, PRESS>>
  /\ \A r \in Resources : released[r] = 1
  /\ window_destroyed

\* C9: every draw call of render_slices is issued with blending enabled as
\* source-alpha / one-minus-source-alpha, depth writes disabled and the depth
\* test enabled, and when render_slices has returned the blending, depth
\* write and depth test settings are those it was called with.
C9_StateRestored ==
  (pc = "rendered") =>
    /\ \A k \in 1..Len(draws) :
         /\ draws[k].gl.blend
         /\ draws[k].gl.blend_src = SRC_ALPHA
         /\ draws[k].gl.blend_dst = ONE_MINUS_SRC_ALPHA
         /\ ~draws[k].gl.depth_mask
         /\ draws[k].gl.depth_test
    /\ gl.blend = gl_at_call.blend
    /\ gl.depth_mask = gl_at_call.depth_mask
    /\ gl.depth_test = gl_at_call.depth_test

\* C10: the cursor move that follows a left press, with or without a release
\* before that press, applies no rotation and records the cursor position.
C10_PressArmsReference ==
  [][\A p \in GridPositions :
       (press_pending /\ mouse_callback(p[1], p[2]))
         => /\ rotation' = rotation
            /\ last_mouse_pos' = p]_vars

=============================================================================
